---- MODULE Spec2Model ----
(***************************************************************************)
(* Model of the ziggypy writer for Ziggurat container files: the signed    *)
(* varint codec (varint.py), the component codecs (ziggypy/components.py)  *)
(* and the container header / BOM / payload writer (container.py).         *)
(*                                                                         *)
(* Python integers are unbounded and the codec works on 64-bit patterns,   *)
(* so an integer handed to encode_varint is modelled as a two's-complement *)
(* bit vector: a sequence of 0/1, least significant bit first, whose last  *)
(* element is the sign bit (sign-extended to the left without limit).      *)
(***************************************************************************)
EXTENDS Integers, Sequences, FiniteSets, TLC

VARIABLES pc, args, self, f, raised

vars == <<pc, args, self, f, raised>>

(***************************************************************************)
(* Bit vectors                                                             *)
(***************************************************************************)

\* the sequence s as an explicit tuple: the same value, with its elements
\* evaluated once
Tuple(s) == s \o <<>>

\* width of the numpy int64 / uint64 cells and of the literal mask
W64 == 64

\* bit i (0-based) of the integer denoted by bit vector b
BitAt(b, i) == IF i + 1 <= Len(b) THEN b[i + 1] ELSE b[Len(b)]

\* x < 0
IsNeg(b) == b[Len(b)] = 1

\* ~x
Inv(b) == Tuple([i \in 1..Len(b) |-> 1 - b[i]])

\* x >> k
Shr(b, k) == Tuple([i \in 1..Len(b) |-> BitAt(b, i - 1 + k)])

\* the integer made of the k bits of b from bit i on
RECURSIVE BitsFrom(_, _, _)
BitsFrom(b, i, k) == IF k = 0 THEN 0 ELSE BitAt(b, i) + 2 * BitsFrom(b, i + 1, k - 1)

\* x & (2^k - 1), as a model integer (k <= 8)
Low(b, k) == BitsFrom(b, 0, k)

\* the two's-complement pattern of width w of a model integer |v| < 2^30
ToBits(v, w) ==
    Tuple([i \in 1..w |-> IF i > 30 THEN (IF v < 0 THEN 1 ELSE 0)
                          ELSE (v \div (2 ^ (i - 1))) % 2])

\* the two integers denoted by a and b are equal
SameInt(a, b) ==
    LET m == IF Len(a) > Len(b) THEN Len(a) ELSE Len(b)
    IN  \A i \in 0..m : BitAt(a, i) = BitAt(b, i)

\* 2^k as a pattern of width w (for k = w-1 this is the most negative value)
Pow2Bits(k, w) == [i \in 1..w |-> IF i = k + 1 THEN 1 ELSE 0]

\* 2^k - 1 as a pattern of width w
Pow2m1Bits(k, w) == [i \in 1..w |-> IF i <= k THEN 1 ELSE 0]

(***************************************************************************)
(* varint.py                                                               *)
(***************************************************************************)

\* (x & mask) != 0 where mask == 0xFFFFFFFFFFFFFFFF << lo
MaskHit(x, lo) == \E i \in lo..(lo + W64 - 1) : BitAt(x, i) = 1

\* the first loop: count bytes while the masked value is not zero
RECURSIVE CountBytes(_, _, _)
CountBytes(x, lo, n_bytes) ==
    IF MaskHit(x, lo) THEN CountBytes(x, lo + 7, n_bytes + 1) ELSE n_bytes

\* the second loop: fill o[k] .. o[1] (0-based) with 7 bits each
RECURSIVE FillBytes(_, _, _, _)
FillBytes(x, k, n_bytes, o) ==
    IF k > 0
    THEN FillBytes(Shr(x, 7), k - 1, n_bytes,
                   [o EXCEPT ![k + 1] =
                        Low(x, 7) + (IF k < n_bytes - 1 THEN 128 ELSE 0)])
    ELSE [x |-> x, o |-> o]

encode_varint(xin) ==
    LET negative == IsNeg(xin)
        x0       == IF negative THEN Inv(xin) ELSE xin
        n_bytes  == CountBytes(x0, 6, 1)
        o0       == Tuple([i \in 1..n_bytes |-> 0])
        nine     == n_bytes = 9
        o1       == IF nine THEN [o0 EXCEPT ![n_bytes] = Low(x0, 8)] ELSE o0
        x1       == IF nine THEN Shr(x0, 8) ELSE x0
        k1       == IF nine THEN n_bytes - 2 ELSE n_bytes - 1
        r        == FillBytes(x1, k1, n_bytes, o1)
        byte     == Low(r.x, 6) + (IF n_bytes > 1 THEN 128 ELSE 0)
                               + (IF negative THEN 64 ELSE 0)
    IN  [r.o EXCEPT ![1] = byte]

\* encode_varint of a model integer held in an int64 cell
varint(v) == encode_varint(ToBits(v, W64))

(***************************************************************************)
(* Specification of the varint codec: one call of encode_varint            *)
(***************************************************************************)

\* largest |x| of the densely enumerated small inputs
MaxSmall == 130

VarintInputs ==
    [kind : {"small"}, v : (-MaxSmall)..MaxSmall]
      \cup [kind : {"pow2", "pow2m1", "notpow2", "notpow2m1"}, v : 0..(W64 - 1)]

InputBits(a) ==
    CASE a.kind = "small"     -> ToBits(a.v, W64)
      [] a.kind = "pow2"      -> Pow2Bits(a.v, W64)
      [] a.kind = "pow2m1"    -> Pow2m1Bits(a.v, W64)
      [] a.kind = "notpow2"   -> Inv(Pow2Bits(a.v, W64))
      [] a.kind = "notpow2m1" -> Inv(Pow2m1Bits(a.v, W64))

NoObject == [cls |-> "none"]

InitVarint ==
    /\ pc = "call"
    /\ args \in [op : {"encode_varint"}, x : {InputBits(a) : a \in VarintInputs}]
    /\ self = NoObject
    /\ f = <<>>
    /\ raised = "none"

EncodeVarint ==
    /\ pc = "call"
    /\ args.op = "encode_varint"
    /\ self' = [cls |-> "bytearray", o |-> encode_varint(args.x)]
    /\ pc' = "done"
    /\ UNCHANGED <<args, f, raised>>

NextVarint == EncodeVarint

SpecVarint == InitVarint /\ [][NextVarint]_vars

(***************************************************************************)
(* Reference decoder used to state the round trip (not part of the writer) *)
(***************************************************************************)

\* the k low bits of a byte value, most significant first
ByteBitsMSB(v, k) == [j \in 1..k |-> (v \div (2 ^ (k - j))) % 2]

Reverse(s) == [i \in 1..Len(s) |-> s[Len(s) + 1 - i]]

\* reads bytes i, i+1, .. of o (1-based); acc holds the magnitude bits read
\* so far, most significant first
RECURSIVE RefLoop(_, _, _)
RefLoop(o, i, acc) ==
    IF i > Len(o) THEN [ok |-> FALSE, acc |-> acc, used |-> Len(o)]
    ELSE IF i = 9 THEN [ok |-> TRUE, acc |-> acc \o ByteBitsMSB(o[i], 8), used |-> i]
    ELSE IF o[i] >= 128 THEN RefLoop(o, i + 1, acc \o ByteBitsMSB(o[i] % 128, 7))
    ELSE [ok |-> TRUE, acc |-> acc \o ByteBitsMSB(o[i] % 128, 7), used |-> i]

\* decodes one varint at the head of o; x is the decoded integer's pattern
RefDecode(o) ==
    LET b0   == o[1]
        neg  == (b0 \div 64) % 2 = 1
        head == ByteBitsMSB(b0 % 64, 6)
        r    == IF b0 >= 128 THEN RefLoop(o, 2, head)
                ELSE [ok |-> TRUE, acc |-> head, used |-> 1]
        mag  == Reverse(r.acc) \o <<0>>
    IN  [ok |-> r.ok, used |-> r.used, x |-> IF neg THEN Inv(mag) ELSE mag]

\* o is exactly one varint and decodes to the integer denoted by x
DecodesTo(o, x) ==
    LET d == RefDecode(o)
    IN  d.ok /\ d.used = Len(o) /\ SameInt(d.x, x)

\* magnitude of x: x if x >= 0 else ~x
Magnitude(x) == IF IsNeg(x) THEN Inv(x) ELSE x

\* mag < 2^k
Below2Pow(mag, k) == \A i \in k..Len(mag) : BitAt(mag, i) = 0

\* the length the format assigns to a magnitude
FormatLen(mag) ==
    IF \E n \in 1..8 : Below2Pow(mag, 6 + 7 * (n - 1))
    THEN CHOOSE n \in 1..8 :
            /\ Below2Pow(mag, 6 + 7 * (n - 1))
            /\ \A k \in 1..(n - 1) : ~Below2Pow(mag, 6 + 7 * (k - 1))
    ELSE 9

VarintDone == pc = "done" /\ args.op = "encode_varint"

\* C3: decoding encode_varint(x) with the reference decoder reconstructs
\* exactly x, for every signed 64-bit integer x.
C3_RoundTrip == VarintDone => DecodesTo(self.o, args.x)

\* C4: encode_varint(x) returns between 1 and 9 bytes: the smallest n in 1..8
\* with magnitude < 2^(6 + 7*(n-1)), and 9 when there is no such n.
C4_Length ==
    VarintDone => /\ Len(self.o) \in 1..9
                  /\ Len(self.o) = FormatLen(Magnitude(args.x))

\* the codec is exact below 2^62: round trip and length hold there
VarintBelow62 ==
    VarintDone /\ Below2Pow(Magnitude(args.x), 62)
        => /\ DecodesTo(self.o, args.x)
           /\ Len(self.o) = FormatLen(Magnitude(args.x))

(***************************************************************************)
(* container.py and Component (ziggypy/components.py)                      *)
(*                                                                         *)
(* The stream f is the sequence of chunks handed to f.write, in order; a   *)
(* chunk records what was written (tag), for which component (idx, 0 for   *)
(* the header), how many bytes (len) and, for packed integers, the value.  *)
(* A component is the record of what the container reads from it: the      *)
(* byte length of its name and bytelen().                                  *)
(***************************************************************************)

BOM_START == 160

LEN_BOM_ENTRY == 48

\* largest value pack('B', ..) accepts
UCHAR_MAX == 255

\* byte length of str(UUID)
UUID_LEN == 36

\* longest component name
NAME_MAX == 12

data_start(cn) == BOM_START + (cn * LEN_BOM_ENTRY)

align_offset(o) == IF o % 8 > 0 THEN o + (8 - (o % 8)) ELSE o

Chunk(tag, idx, len, val) == [tag |-> tag, idx |-> idx, len |-> len, val |-> val]

RECURSIVE SumLen(_, _)
SumLen(fs, k) == IF k = 0 THEN 0 ELSE fs[k].len + SumLen(fs, k - 1)

\* number of bytes in the stream
Tell(fs) == SumLen(fs, Len(fs))

\* stream position at which chunk k begins
PosOf(fs, k) == SumLen(fs, k - 1)

\* Component.__init__: the assertion on the name
Component__init__(c) ==
    IF c.name <= NAME_MAX THEN "none" ELSE "AssertionError"

\* Component.write_bom: eight writes after the assertion on the name
write_bom(c, fs, idx, offset, size) ==
    IF c.name > NAME_MAX
    THEN [f |-> fs, raised |-> "AssertionError"]
    ELSE [f |-> fs \o << Chunk("bom_used", idx, 1, 1),
                         Chunk("bom_type", idx, 1, 0),
                         Chunk("bom_mode", idx, 1, 0),
                         Chunk("bom_name", idx, IF c.name > 13 THEN c.name ELSE 13, 0),
                         Chunk("bom_offset", idx, 8, offset),
                         Chunk("bom_size", idx, 8, size),
                         Chunk("bom_param0", idx, 8, 0),
                         Chunk("bom_param1", idx, 8, 0) >>,
          raised |-> "none"]

\* the assignment lst[i] = v of a Python list (i is 0-based)
SetItem(lst, i, v) ==
    IF i < Len(lst)
    THEN [lst |-> [lst EXCEPT ![i + 1] = v], raised |-> "none"]
    ELSE [lst |-> lst, raised |-> "IndexError"]

\* for i, c in enumerate(self.components[1:], start=1):
\*     self.offsets[i] = align_offset(self.offsets[i-1] + c.bytelen())
RECURSIVE OffsetsLoop(_, _, _)
OffsetsLoop(components, i, offsets) ==
    IF i >= Len(components) THEN [lst |-> offsets, raised |-> "none"]
    ELSE LET c == components[i + 1]
             r == SetItem(offsets, i, align_offset(offsets[i] + c.bytelen))
         IN  IF r.raised # "none" THEN r
             ELSE OffsetsLoop(components, i + 1, r.lst)

\* for c, o, s in zip(self.components, self.offsets, sizes): c.write_bom(f, o, s)
RECURSIVE BomLoop(_, _, _, _)
BomLoop(components, offsets, i, fs) ==
    IF i > Len(components) \/ i > Len(offsets) THEN [f |-> fs, raised |-> "none"]
    ELSE LET r == write_bom(components[i], fs, i, offsets[i], components[i].bytelen)
         IN  IF r.raised # "none" THEN r
             ELSE BomLoop(components, offsets, i + 1, r.f)

BadUuid(u) == u # 0 /\ u # UUID_LEN

\* Container.write_header: the stream, self.offsets and the exception after it
write_header(c, f0) ==
    LET n  == Len(c.components)
        f1 == f0 \o << Chunk("magic", 0, 8, 0), Chunk("version", 0, 4, 0),
                       Chunk("family", 0, 1, 0), Chunk("class", 0, 1, 0),
                       Chunk("type", 0, 1, 0), Chunk("lf", 0, 1, 0),
                       Chunk("uuid", 0, UUID_LEN, 0), Chunk("eot", 0, 4, 0) >>
        f2 == f1 \o << Chunk("allocated", 0, 1, n), Chunk("used", 0, 1, n),
                       Chunk("pad6", 0, 6, 0),
                       Chunk("dim1", 0, 8, c.dimensions[1]),
                       Chunk("dim2", 0, 8, c.dimensions[2]) >>
        f3 == f2 \o << Chunk("base1", 0, UUID_LEN, 0), Chunk("pad4", 0, 4, 0) >>
        f4 == f3 \o << Chunk("base2", 0, UUID_LEN, 0), Chunk("pad4", 0, 4, 0) >>
        o0 == << data_start(n) >>
        ol == OffsetsLoop(c.components, 1, o0)
        bl == BomLoop(c.components, ol.lst, 1, f4)
    IN  IF n > UCHAR_MAX
          THEN [f |-> f1, offsets |-> c.offsets, raised |-> "struct.error"]
        ELSE IF BadUuid(c.base_uuids[1])
          THEN [f |-> f2, offsets |-> c.offsets, raised |-> "AssertionError"]
        ELSE IF BadUuid(c.base_uuids[2])
          THEN [f |-> f3, offsets |-> c.offsets, raised |-> "AssertionError"]
        ELSE IF ol.raised # "none"
          THEN [f |-> f4, offsets |-> ol.lst, raised |-> ol.raised]
        ELSE [f |-> bl.f, offsets |-> ol.lst, raised |-> bl.raised]

\* for component in self.components: component.write(f)
RECURSIVE PayloadLoop(_, _, _)
PayloadLoop(components, i, fs) ==
    IF i > Len(components) THEN fs
    ELSE PayloadLoop(components, i + 1,
                     Append(fs, Chunk("payload", i, components[i].bytelen, 0)))

\* Container.write
write(c, f0) ==
    LET h == write_header(c, f0)
    IN  IF h.raised # "none" THEN h
        ELSE [h EXCEPT !.f = PayloadLoop(c.components, 1, h.f)]

(***************************************************************************)
(* Specification of the container: the caller constructs the components,   *)
(* then the Container, then writes the header or the whole file            *)
(***************************************************************************)

\* longest enumerated component sequence
MaxComponents == 3

\* payload lengths of the enumerated components
ByteLens == {0, 5, 8, 12}

ComponentInputs == [name : {NAME_MAX, NAME_MAX + 1}, bytelen : ByteLens]

RECURSIVE SeqsUpTo(_, _)
SeqsUpTo(S, n) ==
    IF n = 0 THEN {<<>>}
    ELSE LET shorter == SeqsUpTo(S, n - 1)
         IN  shorter \cup {Append(s, e) : s \in {t \in shorter : Len(t) = n - 1}, e \in S}

\* the enumerated sequences, and two long uniform ones around the u8 limit
ComponentSeqs ==
    SeqsUpTo(ComponentInputs, MaxComponents)
      \cup {[i \in 1..k |-> [name |-> 1, bytelen |-> 8]] : k \in {UCHAR_MAX, UCHAR_MAX + 1}}

ContainerInputs ==
    [op : {"Container"},
     components : ComponentSeqs,
     container_type : {2, 3},
     base_uuids : {<<0, 0>>, <<UUID_LEN, 0>>, <<UUID_LEN - 1, 0>>, <<UUID_LEN, UUID_LEN + 1>>}]

InitContainer ==
    /\ pc = "new_component"
    /\ args \in ContainerInputs
    /\ self = [cls |-> "caller", components |-> <<>>]
    /\ f = <<>>
    /\ raised = "none"

\* the caller constructs the next component of the sequence
NewComponent ==
    /\ pc = "new_component"
    /\ Len(self.components) < Len(args.components)
    /\ LET c == args.components[Len(self.components) + 1]
           e == Component__init__(c)
       IN  IF e = "none"
           THEN /\ self' = [self EXCEPT !.components = Append(@, c)]
                /\ UNCHANGED <<pc, raised>>
           ELSE /\ raised' = e
                /\ pc' = "init_raised"
                /\ UNCHANGED self
    /\ UNCHANGED <<args, f>>

\* Container.__init__
NewContainer ==
    /\ pc = "new_component"
    /\ Len(self.components) = Len(args.components)
    /\ IF args.container_type = 3
       THEN /\ self' = [cls |-> "Container",
                        components |-> self.components,
                        container_type |-> args.container_type,
                        dimensions |-> <<0, 0>>,
                        base_uuids |-> args.base_uuids,
                        offsets |-> <<>>]
            /\ pc' = "ready"
            /\ UNCHANGED raised
       ELSE /\ raised' = "AssertionError"
            /\ pc' = "init_raised"
            /\ UNCHANGED self
    /\ UNCHANGED <<args, f>>

\* Container.write_header(f) called on its own
WriteHeader ==
    /\ pc = "ready"
    /\ LET r == write_header(self, f)
       IN  /\ f' = r.f
           /\ self' = [self EXCEPT !.offsets = r.offsets]
           /\ raised' = r.raised
           /\ pc' = IF r.raised = "none" THEN "write_header_done" ELSE "write_header_raised"
    /\ UNCHANGED args

\* Container.write(f)
Write ==
    /\ pc = "ready"
    /\ LET r == write(self, f)
       IN  /\ f' = r.f
           /\ self' = [self EXCEPT !.offsets = r.offsets]
           /\ raised' = r.raised
           /\ pc' = IF r.raised = "none" THEN "write_done" ELSE "write_raised"
    /\ UNCHANGED args

NextContainer == NewComponent \/ NewContainer \/ WriteHeader \/ Write

SpecContainer == InitContainer /\ [][NextContainer]_vars

(***************************************************************************)
(* Claims about the container                                              *)
(***************************************************************************)

\* align8 as the format states it
align8(o) == o + ((8 - (o % 8)) % 8)

\* the offsets the format declares for a sequence of components
RECURSIVE DeclaredOffset(_, _)
DeclaredOffset(components, i) ==
    IF i = 1 THEN 160 + 48 * Len(components)
    ELSE align8(DeclaredOffset(components, i - 1) + components[i - 1].bytelen)

\* a header or file write was attempted on a container that violates none of
\* the construction-time rules
WellFormed ==
    /\ args.op = "Container"
    /\ self.cls = "Container"
    /\ Len(self.components) \in 1..UCHAR_MAX
    /\ ~BadUuid(self.base_uuids[1])
    /\ ~BadUuid(self.base_uuids[2])

HeaderAttempted ==
    pc \in {"write_header_done", "write_header_raised", "write_done", "write_raised"}

WriteAttempted == pc \in {"write_done", "write_raised"}

\* the value of BOM field tag of component i found in stream fs, as a set
BomVals(fs, tag, i) ==
    {fs[k].val : k \in {j \in 1..Len(fs) : fs[j].tag = tag /\ fs[j].idx = i}}

\* C1: for any n >= 1 components write_header computes, without error,
\* offset 0 = 160 + 48*n and offset i = align8(offset i-1 + bytelen i-1), and
\* writes them into BOM entry i together with size = bytelen of component i.
C1_Offsets ==
    HeaderAttempted /\ WellFormed =>
        /\ raised = "none"
        /\ Len(self.offsets) = Len(self.components)
        /\ \A i \in 1..Len(self.components) :
              /\ self.offsets[i] = DeclaredOffset(self.components, i)
              /\ BomVals(f, "bom_offset", i) = {DeclaredOffset(self.components, i)}
              /\ BomVals(f, "bom_size", i) = {self.components[i].bytelen}

\* chunk indices of tag for component i
ChunksOf(fs, tag, i) == {j \in 1..Len(fs) : fs[j].tag = tag /\ fs[j].idx = i}

\* C2: after Container.write(f) on an empty stream the stream holds header,
\* BOM entries in component order and payloads in the same order, and every
\* payload begins at the offset its BOM entry declares and has the declared size.
C2_Layout ==
    WriteAttempted /\ WellFormed =>
        /\ raised = "none"
        /\ PosOf(f, CHOOSE j \in 1..Len(f) : f[j].tag = "bom_used" /\ f[j].idx = 1) = BOM_START
        /\ \A i \in 1..Len(self.components) :
              /\ Cardinality(ChunksOf(f, "payload", i)) = 1
              /\ Cardinality(ChunksOf(f, "bom_offset", i)) = 1
              /\ \A k \in ChunksOf(f, "payload", i) :
                    /\ BomVals(f, "bom_offset", i) = {PosOf(f, k)}
                    /\ BomVals(f, "bom_size", i) = {f[k].len}
                    /\ \A j \in ChunksOf(f, "bom_offset", i) : j < k
              /\ i > 1 => \A k \in ChunksOf(f, "payload", i), j \in ChunksOf(f, "payload", i - 1) : j < k

\* C10: every construction-time violation is raised at construction, so when
\* Container.write(f) raises one of these errors zero bytes have been written.
C10_EagerErrors ==
    pc = "write_raised" /\ raised \in {"AssertionError", "struct.error"}
        => Tell(f) = 0

\* what does hold: a single-component container is laid out as declared
SingleComponentLayout ==
    WriteAttempted /\ WellFormed /\ Len(self.components) = 1 =>
        /\ raised = "none"
        /\ self.offsets = << BOM_START + LEN_BOM_ENTRY >>
        /\ \A k \in ChunksOf(f, "payload", 1) : PosOf(f, k) = self.offsets[1]
        /\ Tell(f) = BOM_START + LEN_BOM_ENTRY + self.components[1].bytelen

(***************************************************************************)
(* VectorComp and VectorDelta (ziggypy/components.py) and the older copy   *)
(* of VectorDelta (components.py)                                          *)
(*                                                                         *)
(* data is the (n, d) matrix as a sequence of n rows of d model integers;  *)
(* byte strings are sequences of byte values.                              *)
(***************************************************************************)

BLOCKSIZE == 16

RECURSIVE JoinFrom(_, _)
JoinFrom(ss, i) == IF i > Len(ss) THEN <<>> ELSE ss[i] \o JoinFrom(ss, i + 1)

\* b''.join(ss)
Join(ss) == JoinFrom(ss, 1)

\* pack('<q', v) for a model integer |v| < 2^23
PackQ(v) ==
    Tuple([k \in 1..8 |-> IF k <= 3 THEN (v \div (256 ^ (k - 1))) % 256
                          ELSE (IF v < 0 THEN 255 ELSE 0)])

\* int((n - 1) / BLOCKSIZE) + 1: true division, truncated toward zero
NumSync(n) ==
    IF n >= 1 THEN ((n - 1) \div BLOCKSIZE) + 1
    ELSE 1 - ((1 - n) \div BLOCKSIZE)

\* the start rows of range(0, n, BLOCKSIZE), as a sequence
BlockStarts(n) ==
    [b \in 1..(IF n <= 0 THEN 0 ELSE ((n - 1) \div BLOCKSIZE) + 1) |-> (b - 1) * BLOCKSIZE]

\* data[i : i + BLOCKSIZE] (i is 0-based)
Slice(data, i) ==
    LET hi == IF i + BLOCKSIZE < Len(data) THEN i + BLOCKSIZE ELSE Len(data)
    IN  SubSeq(data, i + 1, hi)

\* a short block filled up with rows of 0
PaddedBlockZeros(data, i, d) ==
    LET remaining == Len(data) - i
    IN  IF remaining >= 16 THEN Slice(data, i)
        ELSE [r \in 1..16 |-> IF r <= remaining THEN data[i + r] ELSE [j \in 1..d |-> 0]]

\* the 16-row block starting at row i, filled up with rows of -1
PaddedBlock(data, i, d) ==
    LET remaining == Len(data) - i
    IN  IF remaining >= 16 THEN Slice(data, i)
        ELSE [r \in 1..16 |-> IF r <= remaining THEN data[i + r] ELSE [j \in 1..d |-> -1]]

\* column after column, the varints of every row of the block
EncodeCols(rows, d) ==
    Join([j \in 1..d |-> Join([r \in 1..Len(rows) |-> varint(rows[r][j])])])

\* delta[0] = block[0]; delta[i][j] = block[i][j] - block[i-1][j]
DeltaRows(block, d) ==
    [r \in 1..Len(block) |->
        IF r = 1 THEN block[1] ELSE [j \in 1..d |-> block[r][j] - block[r - 1][j]]]

\* sync = [start]; for i, b in enumerate(blocks[:-1], start=1): sync.append(sync[i-1] + len(b))
RECURSIVE SyncFrom(_, _)
SyncFrom(sync, blocks) ==
    IF Len(sync) >= Len(blocks) THEN sync
    ELSE SyncFrom(Append(sync, sync[Len(sync)] + Len(blocks[Len(sync)])), blocks)

\* a sync table that counts from the start of the block region
SyncOffsetsFromZero(start, blocks) == SyncFrom(<<0>>, blocks)

SyncOffsets(start, blocks) == SyncFrom(<<start>>, blocks)

VectorCompBlocks(data, n, d) ==
    [b \in 1..Len(BlockStarts(n)) |-> EncodeCols(PaddedBlock(data, BlockStarts(n)[b], d), d)]

\* blocks whose deltas are taken on the real rows only, the rows of -1 being
\* added afterwards
VectorDeltaBlocksPadAfter(data, n, d) ==
    [b \in 1..Len(BlockStarts(n)) |->
        EncodeCols(LET rows == DeltaRows(Slice(data, BlockStarts(n)[b]), d)
                   IN  [r \in 1..16 |-> IF r <= Len(rows) THEN rows[r]
                                        ELSE [j \in 1..d |-> -1]], d)]

VectorDeltaBlocks(data, n, d) ==
    [b \in 1..Len(BlockStarts(n)) |->
        EncodeCols(DeltaRows(PaddedBlock(data, BlockStarts(n)[b], d), d), d)]

\* the older copy takes the slice as it is, without filling it up
VectorDeltaOldBlocks(data, n, d) ==
    [b \in 1..Len(BlockStarts(n)) |->
        EncodeCols(DeltaRows(Slice(data, BlockStarts(n)[b]), d), d)]

\* the part common to the three constructors, given the encoded blocks
VectorInit(cls, a, blocks) ==
    LET m    == NumSync(a.n)
        sync == SyncOffsets(m * 8, blocks)
    IN  IF a.name > NAME_MAX THEN [cls |-> cls, raised |-> "AssertionError"]
        ELSE IF Len(a.items) # a.n THEN [cls |-> cls, raised |-> "ValueError"]
        ELSE IF Len(blocks) # m THEN [cls |-> cls, raised |-> "AssertionError"]
        ELSE IF Len(sync) # m THEN [cls |-> cls, raised |-> "AssertionError"]
        ELSE [cls |-> cls, raised |-> "none", n |-> a.n, d |-> a.d,
              blocks |-> blocks, sync |-> sync,
              encoded |-> Join([i \in 1..Len(sync) |-> PackQ(sync[i])]) \o Join(blocks)]

VectorComp__init__(a) ==
    VectorInit("VectorComp", a,
               IF Len(a.items) = a.n THEN VectorCompBlocks(a.items, a.n, a.d) ELSE <<>>)

VectorDelta__init__(a) ==
    VectorInit("VectorDelta", a,
               IF Len(a.items) = a.n THEN VectorDeltaBlocks(a.items, a.n, a.d) ELSE <<>>)

VectorDeltaOld__init__(a) ==
    VectorInit("VectorDeltaOld", a,
               IF Len(a.items) = a.n THEN VectorDeltaOldBlocks(a.items, a.n, a.d) ELSE <<>>)

(***************************************************************************)
(* Specification of the vector codecs: one constructor call                *)
(***************************************************************************)

\* largest number of rows of the generated matrices
MaxRows == 34

\* longest fully enumerated item list
MaxListed == 3

\* row of a generated matrix: the value and, for d = 2, a second wider column
Row(v, d) == [j \in 1..d |-> IF j = 1 THEN v ELSE 100 * v + 7]

\* arithmetic progressions: row i holds base + i * step
Progression(n, base, step, d) == [i \in 1..n |-> Row(base + (i - 1) * step, d)]

VectorItems ==
    {Progression(n, base, step, d) :
        n \in 0..MaxRows, base \in {0, 60, -70}, step \in {0, 1, 9, -300}, d \in {1, 2}}
      \cup {<< <<10>>, <<12>>, <<15>>, <<20>> >>}
      \cup SeqsUpTo({<<-1>>, <<0>>, <<63>>, <<64>>, <<9000>>}, MaxListed)

VectorInputs ==
    {[op |-> op, items |-> it, name |-> nm, n |-> Len(it) + dn,
      d |-> IF Len(it) = 0 THEN 1 ELSE Len(it[1])] :
        op \in {"VectorComp", "VectorDelta", "VectorDeltaOld"},
        it \in VectorItems, nm \in {NAME_MAX}, dn \in {0}}
      \cup {[op |-> op, items |-> << <<1>>, <<2>> >>, name |-> nm, n |-> 2 + dn, d |-> 1] :
              op \in {"VectorComp", "VectorDelta", "VectorDeltaOld"},
              nm \in {NAME_MAX, NAME_MAX + 1}, dn \in {0, 1}}

InitVector ==
    /\ pc = "call"
    /\ args \in VectorInputs
    /\ self = NoObject
    /\ f = <<>>
    /\ raised = "none"

Construct(obj) ==
    /\ self' = obj
    /\ raised' = self'.raised
    /\ pc' = IF self'.raised = "none" THEN "constructed" ELSE "init_raised"
    /\ UNCHANGED <<args, f>>

NewVectorComp ==
    /\ pc = "call" /\ args.op = "VectorComp"
    /\ Construct(VectorComp__init__(args))

NewVectorDelta ==
    /\ pc = "call" /\ args.op = "VectorDelta"
    /\ Construct(VectorDelta__init__(args))

NewVectorDeltaOld ==
    /\ pc = "call" /\ args.op = "VectorDeltaOld"
    /\ Construct(VectorDeltaOld__init__(args))

NextVector == NewVectorComp \/ NewVectorDelta \/ NewVectorDeltaOld

SpecVector == InitVector /\ [][NextVector]_vars

(***************************************************************************)
(* Claims about the vector codecs                                          *)
(***************************************************************************)

\* the little-endian int64 at byte offset off of bs (values below 2^24)
ReadQ(bs, off) == bs[off + 1] + 256 * bs[off + 2] + 65536 * bs[off + 3]

\* the bytes bs[off .. off + len - 1] (off is 0-based)
BytesAt(bs, off, len) == SubSeq(bs, off + 1, off + len)

\* byte offset reached after decoding k varints of bs from offset off on
RECURSIVE SkipVarints(_, _, _)
SkipVarints(bs, off, k) ==
    IF k = 0 THEN off
    ELSE IF off >= Len(bs) THEN -1
    ELSE SkipVarints(bs, off + RefDecode(BytesAt(bs, off, Len(bs) - off)).used, k - 1)

CeilDiv16(n) == (n + 15) \div 16

VectorBuilt(classes) ==
    /\ pc = "constructed"
    /\ args.op \in classes
    /\ self.cls \in classes

\* C5: for VectorComp and VectorDelta built from n >= 1 rows the payload
\* starts with exactly m = ceil(n/16) little-endian int64 sync entries; entry
\* 0 is m*8 and entry i is entry i-1 plus the byte length of encoded block
\* i-1, so entry i is the payload offset at which block i begins.
C5_SyncTable ==
    VectorBuilt({"VectorComp", "VectorDelta"}) /\ args.n >= 1 =>
        LET m   == CeilDiv16(args.n)
            e   == [i \in 0..(m - 1) |-> ReadQ(self.encoded, 8 * i)]
        IN  /\ Len(self.blocks) = m
            /\ Len(self.encoded) >= 8 * m
            /\ e[0] = m * 8
            /\ \A i \in 1..(m - 1) : e[i] = e[i - 1] + Len(self.blocks[i])
            /\ \A i \in 0..(m - 1) :
                  /\ BytesAt(self.encoded, e[i], Len(self.blocks[i + 1])) = self.blocks[i + 1]
                  /\ SkipVarints(self.encoded, e[i], 16 * args.d)
                        = IF i = m - 1 THEN Len(self.encoded) ELSE e[i + 1]

C5_Witness ==
    /\ VectorBuilt({"VectorDelta"})
    /\ args.n > 32
    /\ args.d = 2
    /\ ReadQ(self.encoded, 16) > ReadQ(self.encoded, 8) + 32

\* the n varints of a delta-coded item list: items[0], then the differences
PlainDeltas(items) ==
    Join([i \in 1..Len(items) |->
            varint(IF i = 1 THEN items[1][1] ELSE items[i][1] - items[i - 1][1])])

ShortSingleBlock == args.d = 1 /\ args.n >= 1 /\ args.n < 16

\* C6: for a VectorDelta with d = 1 and a single short block (1 <= n < 16)
\* the payload is the sync entry 8 followed by exactly n varints and nothing
\* more; for items [10,12,15,20] it is 08 00 00 00 00 00 00 00 0a 02 03 05.
C6_ShortBlockUnpadded ==
    VectorBuilt({"VectorDelta"}) /\ ShortSingleBlock =>
        /\ self.encoded = PackQ(8) \o PlainDeltas(args.items)
        /\ args.items = << <<10>>, <<12>>, <<15>>, <<20>> >>
              => self.encoded = <<8, 0, 0, 0, 0, 0, 0, 0, 10, 2, 3, 5>>

\* C6 as amended: the payload is the sync entry 8 followed by 16 varints: the
\* n varints of the items, varint(-1 - items[n-1]) for the first padding row
\* and 15 - n zero bytes for the remaining padding rows; for [10,12,15,20] it
\* is the 24 bytes 08 00*7 0a 02 03 05 54 00*11.  Only the older copy of
\* VectorDelta (components.py) writes the n varints and nothing more.
C6_ShortBlockPadded ==
    /\ VectorBuilt({"VectorDelta"}) /\ ShortSingleBlock =>
          /\ self.encoded = PackQ(8) \o PlainDeltas(args.items)
                              \o varint(-1 - args.items[args.n][1])
                              \o [i \in 1..(15 - args.n) |-> 0]
          /\ SkipVarints(self.encoded, 8, 16) = Len(self.encoded)
          /\ args.items = << <<10>>, <<12>>, <<15>>, <<20>> >>
                => self.encoded = <<8, 0, 0, 0, 0, 0, 0, 0, 10, 2, 3, 5,
                                    84, 0, 0, 0, 0, 0, 0, 0, 0, 0, 0, 0>>
    /\ VectorBuilt({"VectorDeltaOld"}) /\ ShortSingleBlock =>
          /\ self.encoded = PackQ(8) \o PlainDeltas(args.items)
          /\ args.items = << <<10>>, <<12>>, <<15>>, <<20>> >>
                => self.encoded = <<8, 0, 0, 0, 0, 0, 0, 0, 10, 2, 3, 5>>

C6_Witness ==
    /\ VectorBuilt({"VectorDelta"})
    /\ args.items = << <<10>>, <<12>>, <<15>>, <<20>> >>
    /\ Len(self.encoded) = 24

\* the value of row g (1-based, over the whole vector) and column j once the
\* final block is filled up with -1
PaddedValue(items, g, j) == IF g <= Len(items) THEN items[g][j] ELSE -1

\* what row r of block b encodes in column j
BlockRowValue(op, items, b, r, j) ==
    LET g == (b - 1) * 16 + r
    IN  IF op = "VectorDelta" /\ r > 1
        THEN PaddedValue(items, g, j) - PaddedValue(items, g - 1, j)
        ELSE PaddedValue(items, g, j)

\* C11: every block of VectorComp and of VectorDelta encodes exactly 16 rows
\* per column (16*d varints); rows missing from a short final block are -1,
\* and VectorDelta takes its deltas after this padding (row 0 verbatim, row i
\* minus row i-1), so the first padding row encodes -1 minus the last real
\* value and the later padding rows encode 0.
C11_PaddedBlocks ==
    VectorBuilt({"VectorComp", "VectorDelta"}) =>
        /\ Len(self.blocks) = CeilDiv16(args.n)
        /\ \A b \in 1..Len(self.blocks) :
              /\ self.blocks[b]
                    = Join([j \in 1..args.d |->
                              Join([r \in 1..16 |->
                                      varint(BlockRowValue(args.op, args.items, b, r, j))])])
              /\ SkipVarints(self.blocks[b], 0, 16 * args.d) = Len(self.blocks[b])
        /\ args.op = "VectorDelta" /\ args.n % 16 # 0 =>
              LET last == self.blocks[Len(self.blocks)]
                  k    == args.n % 16
                  off  == SkipVarints(last, 0, k)
                  pad  == varint(-1 - args.items[args.n][1])
              IN  /\ BytesAt(last, off, Len(pad)) = pad
                  /\ BytesAt(last, off + Len(pad), 15 - k) = [i \in 1..(15 - k) |-> 0]

C11_Witness ==
    /\ VectorBuilt({"VectorDelta"})
    /\ args.n = 20
    /\ args.d = 2
    /\ args.items[20][1] = 231
    /\ Len(self.blocks) = 2
    /\ BytesAt(self.blocks[2], SkipVarints(self.blocks[2], 0, 4), 2) = varint(-232)

(***************************************************************************)
(* Index and IndexCompressed (ziggypy/components.py)                       *)
(*                                                                         *)
(* A uint64 cell is held as the model integer of its int64 view (the pad   *)
(* value of all ones is -1); every real key and position of the inputs is  *)
(* a small natural, so the unsigned order of the cells is the order of the *)
(* model integers.                                                         *)
(***************************************************************************)

\* a - b on uint64 cells: the 64-bit pattern of the wrapped difference
RECURSIVE SubFrom(_, _, _, _)
SubFrom(a, b, i, borrow) ==
    IF i > W64 THEN <<>>
    ELSE LET dd == a[i] - b[i] - borrow
         IN  <<dd % 2>> \o SubFrom(a, b, i + 1, IF dd < 0 THEN 1 ELSE 0)

U64Sub(a, b) == SubFrom(ToBits(a, W64), ToBits(b, W64), 1, 0)

\* int(x) of a uint64 cell: the non-negative Python integer
U64ToInt(bits) == Append(bits, 0)

\* smallest value of column col in a non-empty sequence of rows
MinCol(rows, col) ==
    CHOOSE v \in {rows[i][col] : i \in 1..Len(rows)} :
        \A i \in 1..Len(rows) : v <= rows[i][col]

\* rows[rows[:,col].argsort(kind='mergesort')]: equal cells keep their order
RECURSIVE StableSortBy(_, _)
StableSortBy(rows, col) ==
    IF rows = <<>> THEN <<>>
    ELSE LET v == MinCol(rows, col)
             IsMin(r) == r[col] = v
             NotMin(r) == r[col] # v
         IN  SelectSeq(rows, IsMin) \o StableSortBy(SelectSeq(rows, NotMin), col)

\* every arrangement of a sequence
Arrangements(rows) ==
    {[i \in 1..Len(rows) |-> rows[p[i]]] : p \in Permutations(1..Len(rows))}

\* rows[rows[:,col].argsort()]: the default sort is not stable, so equal
\* cells may come out in any order
RECURSIVE UnstableSortBy(_, _)
UnstableSortBy(rows, col) ==
    IF rows = <<>> THEN {<<>>}
    ELSE LET v == MinCol(rows, col)
             IsMin(r) == r[col] = v
             NotMin(r) == r[col] # v
         IN  {g \o t : g \in Arrangements(SelectSeq(rows, IsMin)),
                       t \in UnstableSortBy(SelectSeq(rows, NotMin), col)}

\* a sort by key alone, without the first pass by position
SortPairsKeyOnly(pairs, sorted) ==
    IF sorted THEN {pairs} ELSE {StableSortBy(pairs, 1)}

\* the two-pass sort of Index and IndexCompressed: the possible results
SortPairs(pairs, sorted) ==
    IF sorted THEN {pairs}
    ELSE {StableSortBy(byPos, 1) : byPos \in UnstableSortBy(pairs, 2)}

\* Index.__init__ given the outcome data of the sort
Index__init__(a, data) ==
    IF a.name > NAME_MAX THEN [cls |-> "Index", raised |-> "AssertionError"]
    ELSE IF Len(a.pairs) # a.n THEN [cls |-> "Index", raised |-> "ValueError"]
    ELSE [cls |-> "Index", raised |-> "none", data |-> data]

\* Index.bytelen
Index_bytelen(obj) == Len(obj.data) * 2 * 8

\* Index.write: one pack('<Q', i) per cell, row after row
Index_write(obj, fs) ==
    fs \o Join([i \in 1..Len(obj.data) |->
                  << Chunk("key", i, 8, obj.data[i][1]), Chunk("position", i, 8, obj.data[i][2]) >>])

\* the scan that cuts the sorted rows into blocks; st holds blen, bstart, blocks
RECURSIVE BlockScan(_, _, _)
BlockScan(data, i, st) ==
    IF i >= Len(data) THEN st
    ELSE IF st.blen < 16
      THEN BlockScan(data, i + 1, [st EXCEPT !.blen = @ + 1])
    ELSE IF data[i + 1][1] = data[i][1]
      THEN BlockScan(data, i + 1, [st EXCEPT !.blen = @ + 1])
    ELSE BlockScan(data, i + 1,
                   [blen |-> 1, bstart |-> i,
                    blocks |-> Append(st.blocks, SubSeq(data, st.bstart + 1, i))])

\* blocks cut after every 16th row, whatever the keys
IndexBlocksFixed(data) ==
    LET m    == (Len(data) + 15) \div 16
        pad  == m * 16 - Len(data)
    IN  [blocks |-> [b \in 1..m |->
                        [r \in 1..16 |-> IF (b - 1) * 16 + r <= Len(data)
                                         THEN data[(b - 1) * 16 + r] ELSE <<-1, -1>>]],
         block_padding |-> pad]

\* the blocks and the padding of the last one
IndexBlocks(data) ==
    LET st   == BlockScan(data, 0, [blen |-> 0, bstart |-> 0, blocks |-> <<>>])
        tail == SubSeq(data, st.bstart + 1, Len(data))
    IN  IF st.blen = 0 THEN [blocks |-> st.blocks, block_padding |-> 0]
        ELSE IF st.blen < 16
          THEN [blocks |-> Append(st.blocks,
                             [r \in 1..16 |-> IF r <= st.blen THEN tail[r] ELSE <<-1, -1>>]),
                block_padding |-> 16 - st.blen]
        ELSE [blocks |-> Append(st.blocks, tail), block_padding |-> 0]

\* a block whose bo counts the rows that are not padding
PackBlockRealBo(b) ==
    LET nkeys == IF Len(b) < 16 THEN Len(b) ELSE 16
    IN  varint(Cardinality({i \in 1..Len(b) : b[i] # <<-1, -1>>}) - 16)
          \o Join([i \in 1..(nkeys - 1) |-> encode_varint(U64ToInt(U64Sub(b[i + 1][1], b[i][1])))])
          \o Join([i \in 1..(Len(b) - 1) |-> varint(b[i + 1][2] - b[i][2])])

\* bo, the key deltas of the first 16 rows and the position deltas of all rows
PackBlock(b) ==
    LET nkeys == IF Len(b) < 16 THEN Len(b) ELSE 16
    IN  varint(Len(b) - 16)
          \o Join([i \in 1..(nkeys - 1) |-> encode_varint(U64ToInt(U64Sub(b[i + 1][1], b[i][1])))])
          \o Join([i \in 1..(Len(b) - 1) |-> varint(b[i + 1][2] - b[i][2])])

\* offsets = [data_offset]; then offsets[i-1] + len(b) for b in blocks[:-1]
IndexOffsets(data_offset, blocks) == SyncFrom(<<data_offset>>, blocks)

\* r as the older copy computes it, without the padding of the last block
RegularItemsUnpadded(blocks, block_padding) == Len(blocks) * 16

\* r: the number of regular items in blocks
RegularItems(blocks, block_padding) == Len(blocks) * 16 - block_padding

\* IndexCompressed.__init__ given the outcome data of the sort
IndexCompressed__init__(a, data) ==
    LET cls     == "IndexCompressed"
        ib      == IndexBlocks(data)
        blocks  == ib.blocks
        r       == RegularItems(blocks, ib.block_padding)
        o       == Len(data) - r
        mr      == NumSync(r)
        data_offset == mr * 8 + 8
        packed_blocks == [i \in 1..Len(blocks) |-> PackBlock(blocks[i])]
        block_keys == [i \in 1..Len(blocks) |-> blocks[i][1][1]]
        offsets == IndexOffsets(data_offset, blocks)
        sync    == Join([i \in 1..Len(blocks) |-> PackQ(block_keys[i]) \o PackQ(offsets[i])])
    IN  IF a.name > NAME_MAX THEN [cls |-> cls, raised |-> "AssertionError"]
        ELSE IF Len(a.pairs) # a.n THEN [cls |-> cls, raised |-> "ValueError"]
        ELSE IF mr # Len(blocks) THEN [cls |-> cls, raised |-> "AssertionError"]
        ELSE [cls |-> cls, raised |-> "none", data |-> data, blocks |-> blocks,
              block_padding |-> ib.block_padding, r |-> r, o |-> o,
              packed_blocks |-> packed_blocks, block_keys |-> block_keys,
              offsets |-> offsets,
              encoded |-> PackQ(r) \o sync \o Join(packed_blocks)]

(***************************************************************************)
(* Specification of the index codecs: a constructor call, then Index.write *)
(***************************************************************************)

\* longest fully enumerated pair list
MaxListedPairs == 4

\* largest number of pairs of the generated key runs
MaxPairs == 34

\* n pairs in key order: runs of run equal keys, positions 0 .. n-1
KeyRuns(n, run, step) == [i \in 1..n |-> << 7 + ((i - 1) \div run) * step, i - 1 >>]

IndexInputs ==
    {[op |-> op, pairs |-> ps, name |-> NAME_MAX, n |-> Len(ps), sorted |-> FALSE] :
        op \in {"Index", "IndexCompressed"},
        ps \in SeqsUpTo({1, 5} \X {0, 1, 2}, MaxListedPairs)}
      \cup {[op |-> "IndexCompressed", pairs |-> IF rev THEN Reverse(ps) ELSE ps,
             name |-> NAME_MAX, n |-> Len(ps), sorted |-> ~rev] :
              rev \in BOOLEAN,
              ps \in {KeyRuns(n, run, step) :
                        n \in 0..MaxPairs, run \in {1, 5, 16, 17, 40}, step \in {7, 100}}}
      \cup {[op |-> op, pairs |-> << <<5, 1>>, <<1, 0>> >>, name |-> nm, n |-> 2 + dn, sorted |-> sd] :
              op \in {"Index", "IndexCompressed"}, nm \in {NAME_MAX, NAME_MAX + 1},
              dn \in {0, 1}, sd \in BOOLEAN}

InitIndex ==
    /\ pc = "call"
    /\ args \in IndexInputs
    /\ self = NoObject
    /\ f = <<>>
    /\ raised = "none"

NewIndex ==
    /\ pc = "call" /\ args.op = "Index"
    /\ \E data \in SortPairs(args.pairs, args.sorted) : Construct(Index__init__(args, data))

NewIndexCompressed ==
    /\ pc = "call" /\ args.op = "IndexCompressed"
    /\ \E data \in SortPairs(args.pairs, args.sorted) :
          Construct(IndexCompressed__init__(args, data))

\* Index.write(f)
IndexWrite ==
    /\ pc = "constructed" /\ self.cls = "Index"
    /\ f' = Index_write(self, f)
    /\ pc' = "write_done"
    /\ UNCHANGED <<args, self, raised>>

NextIndex == NewIndex \/ NewIndexCompressed \/ IndexWrite

SpecIndex == InitIndex /\ [][NextIndex]_vars

(***************************************************************************)
(* Claims about the index codecs                                           *)
(***************************************************************************)

\* number of indices of s holding e
Count(s, e) == Cardinality({i \in 1..Len(s) : s[i] = e})

IsPermutation(s, t) ==
    /\ Len(s) = Len(t)
    /\ \A i \in 1..Len(s) : Count(s, s[i]) = Count(t, s[i])

\* ascending by key and, among equal keys, by position
KeyPositionOrder(s) ==
    \A i \in 1..Len(s) : \A j \in (i + 1)..Len(s) :
        \/ s[i][1] < s[j][1]
        \/ s[i][1] = s[j][1] /\ s[i][2] <= s[j][2]

\* the pairs found in the stream of an Index, read two chunks at a time
WrittenPairs(fs) == [i \in 1..(Len(fs) \div 2) |-> << fs[2 * i - 1].val, fs[2 * i].val >>]

S5Pairs == << <<5, 2>>, <<1, 0>>, <<5, 1>>, <<1, 1>> >>

S5Sorted == << <<1, 0>>, <<1, 1>>, <<5, 1>>, <<5, 2>> >>

\* C7: Index (sorted=False) writes a permutation of the n input pairs ordered
\* by key ascending and, among equal keys, by position ascending, each value
\* as 8 bytes, with bytelen = n*16; [(5,2),(1,0),(5,1),(1,1)] is written as
\* [(1,0),(1,1),(5,1),(5,2)].  IndexCompressed blocks the same order.
C7_IndexOrder ==
    /\ pc = "write_done" /\ self.cls = "Index" /\ ~args.sorted =>
          /\ Len(f) = 2 * args.n
          /\ \A k \in 1..Len(f) : f[k].len = 8
          /\ Tell(f) = args.n * 16
          /\ Index_bytelen(self) = args.n * 16
          /\ IsPermutation(args.pairs, WrittenPairs(f))
          /\ KeyPositionOrder(WrittenPairs(f))
          /\ args.pairs = S5Pairs => WrittenPairs(f) = S5Sorted
    /\ pc = "constructed" /\ self.cls = "IndexCompressed" /\ ~args.sorted =>
          /\ IsPermutation(args.pairs, self.data)
          /\ KeyPositionOrder(self.data)
          /\ self.blocks[1][1] = self.data[1]

C7_Witness ==
    /\ pc = "write_done"
    /\ self.cls = "Index"
    /\ args.pairs = S5Pairs
    /\ WrittenPairs(f) = S5Sorted

IndexCompressedBuilt == pc = "constructed" /\ self.cls = "IndexCompressed"

\* the rows of a block that are not padding
RealRows(b) == Cardinality({i \in 1..Len(b) : b[i] # <<-1, -1>>})

RECURSIVE SumOver(_, _)
SumOver(xs, k) == IF k = 0 THEN 0 ELSE xs[k] + SumOver(xs, k - 1)

\* entries beyond the 16th, summed over the blocks
OverflowItems(blocks) ==
    SumOver([i \in 1..Len(blocks) |-> IF Len(blocks[i]) > 16 THEN Len(blocks[i]) - 16 ELSE 0],
            Len(blocks))

PaddingRows(blocks) ==
    SumOver([i \in 1..Len(blocks) |-> Len(blocks[i]) - RealRows(blocks[i])], Len(blocks))

OneKey(pairs) == \A i \in 1..Len(pairs) : pairs[i][1] = pairs[1][1]

\* C8: the preamble value r equals the number of input pairs n whenever no
\* block overflowed, and also when all pairs share one key: 17 pairs with key
\* 7 give one block of length 17, bo = varint(1), 15 zero key deltas, 15
\* position deltas and r = 17.
C8_PreambleCountsAll ==
    IndexCompressedBuilt =>
        /\ OverflowItems(self.blocks) = 0 => ReadQ(self.encoded, 0) = args.n
        /\ OneKey(args.pairs) => ReadQ(self.encoded, 0) = args.n
        /\ OneKey(args.pairs) /\ args.n = 17 =>
              /\ Len(self.blocks) = 1 /\ Len(self.blocks[1]) = 17
              /\ BytesAt(self.packed_blocks[1], 0, 16) = <<1>> \o [i \in 1..15 |-> 0]
              /\ SkipVarints(self.packed_blocks[1], 16, 15) = Len(self.packed_blocks[1])

\* C8 as amended: r = 16*m - padding = n minus the entries beyond the 16th of
\* each block, so r = n exactly when no block overflowed; n >= 17 pairs that
\* share one key give one block of length n with bo = varint(n - 16), 15 zero
\* key deltas, n - 1 position deltas and r = 16 (17 pairs with key 7: 16
\* position deltas, r = 16).
C8_PreambleCountsRegular ==
    IndexCompressedBuilt =>
        LET r == ReadQ(self.encoded, 0)
        IN  /\ r = 16 * Len(self.blocks) - PaddingRows(self.blocks)
            /\ r = args.n - OverflowItems(self.blocks)
            /\ OverflowItems(self.blocks) = 0 => r = args.n
            /\ OneKey(args.pairs) /\ args.n >= 17 =>
                  /\ r = 16
                  /\ Len(self.blocks) = 1 /\ Len(self.blocks[1]) = args.n
                  /\ BytesAt(self.packed_blocks[1], 0, 16)
                        = <<args.n - 16>> \o [i \in 1..15 |-> 0]
                  /\ SkipVarints(self.packed_blocks[1], 16, args.n - 1)
                        = Len(self.packed_blocks[1])

C8_Witness ==
    /\ IndexCompressedBuilt
    /\ args.n = 17
    /\ \A i \in 1..17 : args.pairs[i][1] = 7
    /\ Len(self.blocks[1]) = 17
    /\ ReadQ(self.encoded, 0) = 16

\* the rows of a block without the padding rows
RealPart(b) == LET IsReal(row) == row # <<-1, -1>> IN SelectSeq(b, IsReal)

KeySorted(data) == \A i \in 1..(Len(data) - 1) : data[i][1] <= data[i + 1][1]

\* the blocks that hold a row with key k
BlocksWithKey(blocks, k) ==
    {i \in 1..Len(blocks) : \E r \in 1..Len(RealPart(blocks[i])) : RealPart(blocks[i])[r][1] = k}

\* C12: over a key-sorted sequence the blocks of IndexCompressed are
\* consecutive slices covering the sequence in order; every block but the
\* last holds at least 16 real entries; no block boundary separates two
\* adjacent entries with equal keys; a block is longer than 16 only when
\* every entry from index 16 on has the key of its predecessor; so all pairs
\* with a given key lie in exactly one block.
C12_BlockBoundaries ==
    IndexCompressedBuilt /\ KeySorted(self.data) =>
        LET blocks == self.blocks
            m      == Len(blocks)
        IN  /\ Join([i \in 1..m |-> RealPart(blocks[i])]) = self.data
            /\ \A i \in 1..(m - 1) : Len(RealPart(blocks[i])) >= 16
            /\ \A i \in 1..(m - 1) :
                  blocks[i][Len(blocks[i])][1] # blocks[i + 1][1][1]
            /\ \A i \in 1..m : \A r \in 17..Len(blocks[i]) :
                  blocks[i][r][1] = blocks[i][r - 1][1]
            /\ \A g \in 1..Len(self.data) :
                  Cardinality(BlocksWithKey(blocks, self.data[g][1])) = 1

C12_Witness ==
    /\ IndexCompressedBuilt
    /\ KeySorted(self.data)
    /\ args.n = 34
    /\ Len(self.blocks) = 2
    /\ Len(self.blocks[1]) = 20
    /\ Len(RealPart(self.blocks[2])) = 14

\* s starts with the bytes of t
StartsWith(s, t) == Len(s) >= Len(t) /\ SubSeq(s, 1, Len(t)) = t

\* the packed blocks are the tail of the payload
PackedTail ==
    LET tail == Join(self.packed_blocks)
    IN  /\ Len(self.encoded) >= Len(tail)
        /\ SubSeq(self.encoded, Len(self.encoded) - Len(tail) + 1, Len(self.encoded)) = tail

\* C13: every IndexCompressed block begins with bo = varint(number of block
\* entries without the padding - 16): 0 for exactly 16 real entries, positive
\* for an overflow block, and -(16 - k) for a final block of k < 16 real
\* entries.
C13_BoCountsReal ==
    IndexCompressedBuilt =>
        \A i \in 1..Len(self.blocks) :
            StartsWith(self.packed_blocks[i], varint(Len(RealPart(self.blocks[i])) - 16))

\* C13 as amended: bo = varint(number of rows of the block - 16), the rows of
\* a short final block counted after it was filled up to 16: bo is 0 for
\* every block of 16 rows, padded or not, positive for an overflow block and
\* never negative.
C13_BoCountsRows ==
    IndexCompressedBuilt =>
        /\ PackedTail
        /\ \A i \in 1..Len(self.blocks) :
              LET b == self.blocks[i]
              IN  /\ Len(b) >= 16
                  /\ StartsWith(self.packed_blocks[i], varint(Len(b) - 16))
                  /\ Len(b) = 16 => self.packed_blocks[i][1] = 0
                  /\ Len(b) > 16 => self.packed_blocks[i][1] = Len(b) - 16
                  /\ Len(RealPart(b)) < 16 => self.packed_blocks[i][1] = 0

C13_Witness ==
    /\ IndexCompressedBuilt
    /\ Len(self.blocks) = 2
    /\ Len(self.blocks[1]) = 20
    /\ self.packed_blocks[1][1] = 4
    /\ Len(RealPart(self.blocks[2])) = 14
    /\ self.packed_blocks[2][1] = 0

\* the block start offset written in sync entry i (0-based): the preamble
\* takes 8 bytes, every entry 16, the offset is the second half of an entry
SyncOffsetAt(i) == ReadQ(self.encoded, 8 + 16 * i + 8)

\* C14: in the sync table of m (block key, block start offset) entries the
\* start offset of block 0 is m*8 + 8 and the start offset of block i >= 1 is
\* that of block i-1 plus the byte length of packed block i-1.
C14_SyncOffsets ==
    IndexCompressedBuilt =>
        LET m == Len(self.blocks)
        IN  /\ SyncOffsetAt(0) = m * 8 + 8
            /\ \A i \in 1..(m - 1) :
                  SyncOffsetAt(i) = SyncOffsetAt(i - 1) + Len(self.packed_blocks[i])

\* what is written instead: each offset adds the number of rows of the
\* previous block
SyncOffsetsCountRows ==
    IndexCompressedBuilt =>
        LET m == Len(self.blocks)
        IN  /\ SyncOffsetAt(0) = m * 8 + 8
            /\ \A i \in 1..(m - 1) :
                  SyncOffsetAt(i) = SyncOffsetAt(i - 1) + Len(self.blocks[i])

\* the varints of a block, in the order in which they are packed
BlockVarints(b) ==
    LET nkeys == IF Len(b) < 16 THEN Len(b) ELSE 16
    IN  <<varint(Len(b) - 16)>>
          \o [i \in 1..(nkeys - 1) |-> encode_varint(U64ToInt(U64Sub(b[i + 1][1], b[i][1])))]
          \o [i \in 1..(Len(b) - 1) |-> varint(b[i + 1][2] - b[i][2])]

\* C17: every varint inside an IndexCompressed block (bo, the key deltas,
\* the position deltas) is 1 to 9 bytes long for every input of unsigned
\* 64-bit keys, also for the delta from the last real key to the all-ones
\* padding key of a short final block.
C17_BlockVarintWidths ==
    IndexCompressedBuilt =>
        \A k \in 1..Len(self.blocks) :
            LET vs == BlockVarints(self.blocks[k])
            IN  /\ self.packed_blocks[k] = Join(vs)
                /\ \A i \in 1..Len(vs) : Len(vs[i]) \in 1..9
                /\ SkipVarints(self.packed_blocks[k], 0, Len(vs)) = Len(self.packed_blocks[k])

\* over key-sorted data the delta into the padding is the only varint that
\* is too long, and it takes 10 bytes
PaddingDeltaTenBytes ==
    IndexCompressedBuilt /\ KeySorted(self.data) =>
        \A k \in 1..Len(self.blocks) :
            LET b  == self.blocks[k]
                vs == BlockVarints(b)
                kr == Len(RealPart(b))
            IN  /\ self.packed_blocks[k] = Join(vs)
                /\ \A i \in 1..Len(vs) :
                      Len(vs[i]) = IF kr < 16 /\ i = kr + 1 THEN 10 ELSE Len(vs[i])
                /\ \A i \in 1..Len(vs) : Len(vs[i]) > 9 => (kr < 16 /\ i = kr + 1)

(***************************************************************************)
(* InvertedIndex (ziggypy/components.py)                                   *)
(*                                                                         *)
(* positions is the stream: one list of type IDs per corpus position.      *)
(***************************************************************************)

\* postings[t]: the indices i (0-based) of the positions that list t, in
\* stream order, once per listing
RECURSIVE PostingsOf(_, _, _)
PostingsOf(positions, t, i) ==
    IF i > Len(positions) THEN <<>>
    ELSE LET IsT(e) == e = t
         IN  [k \in 1..Len(SelectSeq(positions[i], IsT)) |-> i - 1]
               \o PostingsOf(positions, t, i + 1)

\* postings stored as they are, without taking differences
PostingsAbsolute(posting) == posting

\* first posting as it is, then the differences
PostingsDelta(posting) ==
    [i \in 1..Len(posting) |-> IF i = 1 THEN posting[1] ELSE posting[i] - posting[i - 1]]

\* varint(0) for the jump table, then the varints of the deltas
PostingsBlock(pd) == varint(0) \o Join([i \in 1..Len(pd) |-> varint(pd[i])])

\* the header table: frequency and offset of every type
RECURSIVE PostingsHeader(_, _, _, _)
PostingsHeader(postings, postings_encoded, t, offset) ==
    IF t > Len(postings) THEN <<>>
    ELSE PackQ(Len(postings[t])) \o PackQ(offset)
           \o PostingsHeader(postings, postings_encoded, t + 1,
                             offset + Len(postings_encoded[t]))

InvertedIndex__init__(a) ==
    LET cls      == "InvertedIndex"
        K        == a.types
        postings == Tuple([t \in 1..K |-> PostingsOf(a.positions, t - 1, 1)])
        postings_encoded == Tuple([t \in 1..K |-> PostingsBlock(PostingsDelta(postings[t]))])
    IN  IF a.p # 0 THEN [cls |-> cls, raised |-> "AssertionError"]
        ELSE IF a.name > NAME_MAX THEN [cls |-> cls, raised |-> "AssertionError"]
        ELSE IF \E i \in 1..Len(a.positions) : \E j \in 1..Len(a.positions[i]) :
                   a.positions[i][j] >= K
          THEN [cls |-> cls, raised |-> "IndexError"]
        ELSE IF \E t \in 1..K : postings[t] = <<>>
          THEN [cls |-> cls, raised |-> "IndexError"]
        ELSE [cls |-> cls, raised |-> "none", postings |-> postings,
              encoded |-> PostingsHeader(postings, postings_encoded, 1, a.k * 16)
                            \o Join(postings_encoded)]

(***************************************************************************)
(* Specification of the inverted index: one constructor call               *)
(***************************************************************************)

\* largest number of types
MaxTypes == 3

\* largest number of enumerated stream positions
MaxPositions == 2

\* length of the run of empty positions put in front of a stream, so that
\* first postings need two varint bytes
LongGap == 70

\* the elements of a set of naturals in ascending order
RECURSIVE AscSeq(_)
AscSeq(S) ==
    IF S = {} THEN <<>>
    ELSE LET v == CHOOSE x \in S : \A y \in S : x <= y
         IN  <<v>> \o AscSeq(S \ {v})

InvertedInputsOf(K) ==
    {[op |-> "InvertedIndex", types |-> K, k |-> K, p |-> p, name |-> NAME_MAX,
      positions |-> [i \in 1..gap |-> <<>>] \o ps] :
        p \in {0, 1}, gap \in {0, LongGap},
        ps \in SeqsUpTo({AscSeq(S) : S \in SUBSET (0..(K - 1))}, MaxPositions)}

InvertedInputs == UNION {InvertedInputsOf(K) : K \in 1..MaxTypes}

InitInverted ==
    /\ pc = "call"
    /\ args \in InvertedInputs
    /\ self = NoObject
    /\ f = <<>>
    /\ raised = "none"

NewInvertedIndex ==
    /\ pc = "call" /\ args.op = "InvertedIndex"
    /\ Construct(InvertedIndex__init__(args))

NextInverted == NewInvertedIndex

SpecInverted == InitInverted /\ [][NextInverted]_vars

(***************************************************************************)
(* Claims about the inverted index                                         *)
(***************************************************************************)

\* the value of the varint at byte offset off of bs (a natural below 2^30)
VarintValueAt(bs, off) ==
    BitsFrom(RefDecode(BytesAt(bs, off, Len(bs) - off)).x, 0, 30)

\* the running sums of the k varints of bs from offset off on
RECURSIVE RunningSums(_, _, _, _)
RunningSums(bs, off, k, sum) ==
    IF k = 0 THEN <<>>
    ELSE LET v == VarintValueAt(bs, off)
         IN  <<sum + v>> \o RunningSums(bs, SkipVarints(bs, off, 1), k - 1, sum + v)

\* the stream indices (0-based) at which type t is listed, ascending
Occurrences(positions, t) ==
    AscSeq({i - 1 : i \in {j \in 1..Len(positions) :
                             \E e \in 1..Len(positions[j]) : positions[j][e] = t}})

InvertedBuilt == pc = "constructed" /\ self.cls = "InvertedIndex"

\* C9: for K types and p = 0, every type occurring: the header has K entries
\* (f_t, offset_t) with f_t = number of positions listing t, offset_0 = K*16
\* and offset_(t+1) = offset_t + byte length of block_t; block_t is varint(0)
\* followed by f_t varints whose running sums are exactly the ascending
\* positions at which t occurs.
C9_Postings ==
    /\ args.op = "InvertedIndex" /\ pc # "call" /\ args.p = 0
       /\ (\A t \in 0..(args.types - 1) : Occurrences(args.positions, t) # <<>>)
          => InvertedBuilt
    /\ InvertedBuilt =>
        LET K      == args.types
            e      == self.encoded
            freq   == [t \in 0..(K - 1) |-> ReadQ(e, 16 * t)]
            offset == [t \in 0..K |-> IF t = K THEN Len(e) ELSE ReadQ(e, 16 * t + 8)]
        IN  /\ args.p = 0
            /\ Len(e) >= K * 16
            /\ offset[0] = K * 16
            /\ \A t \in 0..(K - 1) :
                  /\ freq[t] = Len(Occurrences(args.positions, t))
                  /\ freq[t] >= 1
                  /\ e[offset[t] + 1] = 0
                  /\ offset[t + 1] = SkipVarints(e, offset[t], 1 + freq[t])
                  /\ RunningSums(e, offset[t] + 1, freq[t], 0)
                        = Occurrences(args.positions, t)

C9_Witness ==
    /\ InvertedBuilt
    /\ args.types = 3
    /\ Len(args.positions) = LongGap + 2
    /\ ReadQ(self.encoded, 0) = 2
    /\ ReadQ(self.encoded, 24) = ReadQ(self.encoded, 8) + 4

(***************************************************************************)
(* Set (ziggypy/components.py)                                            *)
(*                                                                         *)
(* sets is a sequence of sequences of type IDs (Python integers).          *)
(***************************************************************************)

\* batched(sets, k): the batches of up to k consecutive elements, in order
batched(sets, k) ==
    [b \in 1..((Len(sets) + k - 1) \div k) |->
        SubSeq(sets, (b - 1) * k + 1, IF b * k < Len(sets) THEN b * k ELSE Len(sets))]

\* delta = [set[0]]; delta.append(set[i] - set[i-1]); the varints joined
SetEncoded(set) ==
    Join([i \in 1..Len(set) |-> varint(IF i = 1 THEN set[1] ELSE set[i] - set[i - 1])])

\* sum of the lengths of the first k byte strings of ss
RECURSIVE LenSum(_, _)
LenSum(ss, k) == IF k = 0 THEN 0 ELSE Len(ss[k]) + LenSum(ss, k - 1)

\* one block: the delta-coded offsets (filled up to 16 with -1), the lengths
\* (filled up with 0), then the encoded sets of the batch
SetBlock(batch) ==
    LET enc     == Tuple([i \in 1..Len(batch) |-> SetEncoded(batch[i])])
        size    == IF Len(batch) < 16 THEN 16 ELSE Len(batch)
        offsets == [i \in 1..size |-> IF i <= Len(batch) THEN LenSum(enc, i - 1) ELSE -1]
        lengths == [i \in 1..size |-> IF i <= Len(batch) THEN Len(enc[i]) ELSE 0]
        offsets_delta ==
            [i \in 1..size |-> IF i = 1 THEN offsets[1] ELSE offsets[i] - offsets[i - 1]]
    IN  Join([i \in 1..size |-> varint(offsets_delta[i])])
          \o Join([i \in 1..size |-> varint(lengths[i])])
          \o Join(enc)

\* a sync vector with one more entry: the end of the last block
SetSyncEndMarker(blocks) == SyncFrom(<<0>>, Append(blocks, <<>>))

\* sync = [0]; for i, b in enumerate(blocks[:-1], start=1): sync.append(sync[i-1] + len(b))
SetSync(blocks) == SyncFrom(<<0>>, blocks)

Set__init__(a) ==
    LET cls     == "Set"
        batches == batched(a.sets, 16)
    IN  IF a.name > NAME_MAX THEN [cls |-> cls, raised |-> "AssertionError"]
        ELSE IF \E i \in 1..Len(a.sets) : a.sets[i] = <<>>
          THEN [cls |-> cls, raised |-> "IndexError"]
        ELSE LET blocks == Tuple([b \in 1..Len(batches) |-> SetBlock(batches[b])])
             IN  [cls |-> cls, raised |-> "none", blocks |-> blocks, sync |-> SetSync(blocks)]

\* Set.bytelen
Set_bytelen(obj) == Len(obj.sync) * 8 + LenSum(obj.blocks, Len(obj.blocks))

\* Set.write: one write per sync entry, then one per block
Set_write(obj, fs) ==
    fs \o [i \in 1..Len(obj.sync) |-> Chunk("sync", i, 8, obj.sync[i])]
       \o [i \in 1..Len(obj.blocks) |-> Chunk("block", i, Len(obj.blocks[i]), obj.blocks[i])]

(***************************************************************************)
(* Specification of the Set component: the constructor, then Set.write     *)
(***************************************************************************)

\* longest fully enumerated sequence of sets
MaxListedSets == 3

\* largest number of generated sets
MaxSets == 34

\* n generated sets of ascending type IDs
GenSets(n, kind) ==
    [i \in 1..n |->
        CASE kind = "single" -> <<(i - 1) % 3>>
          [] kind = "pair"   -> <<i - 1, i + 69>>
          [] kind = "grow"   -> [k \in 1..(((i - 1) % 4) + 1) |-> 3 * (k - 1) + i]
          [] kind = "hole"   -> IF i = (n + 1) \div 2 THEN <<>> ELSE <<0, i>>]

SetInputs ==
    {[op |-> "Set", sets |-> ss, name |-> NAME_MAX, n |-> Len(ss)] :
        ss \in SeqsUpTo({<<>>, <<0>>, <<0, 1>>, <<2>>, <<1, 70>>}, MaxListedSets)}
      \cup {[op |-> "Set", sets |-> GenSets(n, kind), name |-> NAME_MAX, n |-> n] :
              n \in 0..MaxSets, kind \in {"single", "pair", "grow", "hole"}}
      \cup {[op |-> "Set", sets |-> << <<0>>, <<1>> >>, name |-> NAME_MAX + 1, n |-> 2]}

InitSet ==
    /\ pc = "call"
    /\ args \in SetInputs
    /\ self = NoObject
    /\ f = <<>>
    /\ raised = "none"

NewSet ==
    /\ pc = "call" /\ args.op = "Set"
    /\ Construct(Set__init__(args))

\* Set.write(f)
SetWrite ==
    /\ pc = "constructed" /\ self.cls = "Set"
    /\ f' = Set_write(self, f)
    /\ pc' = "write_done"
    /\ UNCHANGED <<args, self, raised>>

NextSet == NewSet \/ SetWrite

SpecSet == InitSet /\ [][NextSet]_vars

(***************************************************************************)
(* Claims about the Set component                                          *)
(***************************************************************************)

SetWritten == pc = "write_done" /\ self.cls = "Set"

NonEmptySets == args.n >= 1 /\ \A i \in 1..Len(args.sets) : args.sets[i] # <<>>

\* the chunks of the stream carrying tag, in stream order
TaggedChunks(fs, tag) == LET Is(c) == c.tag = tag IN SelectSeq(fs, Is)

SetAttempted == pc # "call" /\ args.op = "Set" /\ args.name <= NAME_MAX

\* C19: constructing a Set succeeds for every sequence of sets of
\* nonnegative type IDs, also when it contains an empty set: the empty set
\* contributes a zero-length varint stream and nothing is raised.
C19_EmptySetAccepted ==
    SetAttempted =>
        /\ raised = "none"
        /\ self.cls = "Set"
        /\ Len(self.blocks) = CeilDiv16(Len(args.sets))

\* construction fails exactly when some set is empty
EmptySetRaises ==
    SetAttempted =>
        IF \E i \in 1..Len(args.sets) : args.sets[i] = <<>>
        THEN raised = "IndexError" /\ pc = "init_raised"
        ELSE raised = "none"

(***************************************************************************)
(* StringList, Vector (ziggypy/components.py) and PlainStringVariable      *)
(* (variables.py)                                                          *)
(*                                                                         *)
(* strings is a sequence of byte strings.  fnv1a_64 comes from the fnvhash *)
(* library; its values enter only as the keys of StringHash and are taken  *)
(* as any function from the strings to key values.                         *)
(***************************************************************************)

\* islice(strings, n)
islice(strings, n) == SubSeq(strings, 1, IF n < Len(strings) THEN n ELSE Len(strings))

\* StringList.__init__: every string followed by a zero byte
StringList__init__(strings, name, n) ==
    LET taken   == islice(strings, n)
        encoded == Join([i \in 1..Len(taken) |-> taken[i] \o <<0>>])
    IN  IF name > NAME_MAX THEN [cls |-> "StringList", raised |-> "AssertionError"]
        ELSE [cls |-> "StringList", raised |-> "none", n |-> n, encoded |-> encoded]

\* Vector.__init__ for a flat list of items and d = 1
Vector__init__(items, name, n) ==
    IF name > NAME_MAX THEN [cls |-> "Vector", raised |-> "AssertionError"]
    ELSE IF Len(items) # n THEN [cls |-> "Vector", raised |-> "ValueError"]
    ELSE [cls |-> "Vector", raised |-> "none", n |-> n, d |-> 1, data |-> items]

\* bytelen of the components built here
Component_bytelen(obj) ==
    CASE obj.cls = "Vector" -> obj.n * obj.d * 8
      [] obj.cls = "Index"  -> Index_bytelen(obj)
      [] OTHER              -> Len(obj.encoded)

\* list(accumulate(chain([0], strings), lambda x, y: x + len(y)))
OffsetValues(strings) == [i \in 1..(Len(strings) + 1) |-> LenSum(strings, i - 1)]

\* lengths of the component names 'StringData', 'OffsetStream', 'StringHash'
LenStringData == 10
LenOffsetStream == 12
LenStringHash == 10

(***************************************************************************)
(* Specification of PlainStringVariable.__init__, component by component   *)
(***************************************************************************)

\* longest fully enumerated sequence of strings
MaxStrings == 3

\* largest number of strings of the generated long sequences
MaxManyStrings == 18

StringAlphabet == {<<>>, <<97>>, <<97, 98>>, <<98, 98, 97>>}

HashValues == {7, 107}

StringInputs ==
    {[op |-> "PlainStringVariable", strings |-> ss, n |-> Len(ss) + dn, compressed |-> c] :
        ss \in SeqsUpTo(StringAlphabet, MaxStrings), dn \in {0}, c \in BOOLEAN}
      \cup {[op |-> "PlainStringVariable", strings |-> [i \in 1..k |-> <<97, 98>>],
             n |-> k, compressed |-> c] : k \in 4..MaxManyStrings, c \in BOOLEAN}
      \cup {[op |-> "PlainStringVariable", strings |-> << <<97>>, <<98, 98, 97>> >>,
             n |-> 2 + dn, compressed |-> c] : dn \in {-1, 1}, c \in BOOLEAN}

InitString ==
    /\ pc = "call"
    /\ args \in StringInputs
    /\ self = NoObject
    /\ f = <<>>
    /\ raised = "none"

\* one step of the constructor: obj is the component just built
StringStep(field, obj, next) ==
    /\ raised' = obj.raised
    /\ pc' = IF obj.raised = "none" THEN next ELSE "init_raised"
    /\ self' = IF obj.raised = "none" THEN field ELSE self
    /\ UNCHANGED <<args, f>>

\* string_data = StringList(strings, 'StringData', base_layer.n)
BuildStringData ==
    /\ pc = "call" /\ args.op = "PlainStringVariable"
    /\ LET obj == StringList__init__(args.strings, LenStringData, args.n)
       IN  StringStep([cls |-> "PlainStringVariable", string_data |-> obj], obj, "string_data")

\* offset_stream = VectorDelta(...) or Vector(...) over the accumulated lengths
BuildOffsetStream ==
    /\ pc = "string_data"
    /\ LET vals == OffsetValues(args.strings)
           obj  == IF args.compressed
                   THEN VectorDelta__init__([items |-> [i \in 1..Len(vals) |-> <<vals[i]>>],
                                             name |-> LenOffsetStream, n |-> Len(vals), d |-> 1])
                   ELSE Vector__init__(vals, LenOffsetStream, Len(vals))
       IN  StringStep([cls |-> "PlainStringVariable", string_data |-> self.string_data,
                       offset_values |-> vals, offset_stream |-> obj], obj, "offset_stream")

\* string_hash = IndexCompressed(...) or Index(...) over (fnv1a_64(s), i)
BuildStringHash ==
    /\ pc = "offset_stream"
    /\ \E h \in [{args.strings[i] : i \in 1..Len(args.strings)} -> HashValues] :
          LET pairs == [i \in 1..Len(args.strings) |-> <<h[args.strings[i]], i - 1>>]
              a     == [pairs |-> pairs, name |-> LenStringHash, n |-> args.n]
          IN  \E data \in SortPairs(pairs, FALSE) :
                LET obj == IF args.compressed THEN IndexCompressed__init__(a, data)
                           ELSE Index__init__(a, data)
                IN  StringStep([cls |-> "PlainStringVariable", string_data |-> self.string_data,
                                offset_values |-> self.offset_values,
                                offset_stream |-> self.offset_stream,
                                string_hash |-> obj], obj, "string_hash")

\* self.container = Container((string_data, offset_stream, string_hash), 'ZVc', ...)
BuildContainer ==
    /\ pc = "string_hash"
    /\ self' = [cls |-> "PlainStringVariable", string_data |-> self.string_data,
                offset_values |-> self.offset_values,
                offset_stream |-> self.offset_stream,
                string_hash |-> self.string_hash,
                container |->
                   [cls |-> "Container",
                    components |->
                       << [name |-> LenStringData, bytelen |-> Component_bytelen(self.string_data)],
                          [name |-> LenOffsetStream, bytelen |-> Component_bytelen(self.offset_stream)],
                          [name |-> LenStringHash, bytelen |-> Component_bytelen(self.string_hash)] >>,
                    container_type |-> 3,
                    dimensions |-> <<args.n, 0>>,
                    base_uuids |-> <<UUID_LEN, 0>>,
                    offsets |-> <<>>]]
    /\ pc' = "constructed"
    /\ UNCHANGED <<args, f, raised>>

NextString == BuildStringData \/ BuildOffsetStream \/ BuildStringHash \/ BuildContainer

SpecString == InitString /\ [][NextString]_vars

(***************************************************************************)
(* Claims about PlainStringVariable                                        *)
(***************************************************************************)

OffsetStreamBuilt ==
    /\ args.op = "PlainStringVariable"
    /\ pc \in {"offset_stream", "string_hash", "constructed"}
    /\ Len(args.strings) = args.n

\* byte offset at which string i (0-based) begins in StringData
StringBegin(strings, i) == LenSum(strings, i) + i

\* C16: the OffsetStream of a PlainStringVariable holds n+1 values; value i
\* (0 <= i <= n) is the byte offset at which string i begins inside the
\* StringData payload, value n the total length of StringData, where
\* StringData stores each string followed by a zero byte.
C16_OffsetsLocateStrings ==
    OffsetStreamBuilt =>
        LET data == self.string_data.encoded
            vals == self.offset_values
            n    == args.n
        IN  /\ Len(vals) = n + 1
            /\ self.offset_stream.n = n + 1
            /\ \A i \in 0..(n - 1) :
                  BytesAt(data, StringBegin(args.strings, i), Len(args.strings[i + 1]) + 1)
                     = args.strings[i + 1] \o <<0>>
            /\ \A i \in 0..(n - 1) :
                  BytesAt(data, vals[i + 1], Len(args.strings[i + 1]) + 1)
                     = args.strings[i + 1] \o <<0>>
            /\ \A i \in 0..n : vals[i + 1] = StringBegin(args.strings, i)
            /\ vals[n + 1] = Len(data)

\* what is built instead: value i is the sum of the lengths of strings
\* 0..i-1 without their terminators, i bytes before the place of string i
OffsetsSkipTerminators ==
    OffsetStreamBuilt =>
        /\ Len(self.offset_values) = args.n + 1
        /\ Len(self.string_data.encoded) = StringBegin(args.strings, args.n)
        /\ \A i \in 0..args.n :
              self.offset_values[i + 1] = StringBegin(args.strings, i) - i

(***************************************************************************)
(* The block-building constructors together: VectorComp, VectorDelta,      *)
(* IndexCompressed (and Index with its write)                              *)
(***************************************************************************)

InitBlocks == InitVector \/ InitIndex

NextBlocks == NextVector \/ NextIndex

SpecBlocks == InitBlocks /\ [][NextBlocks]_vars

\* a constructor with blocks was called with a valid name and as many rows
\* as it was told
BlocksAttempted ==
    /\ pc # "call"
    /\ args.op \in {"VectorComp", "VectorDelta", "IndexCompressed"}
    /\ args.name <= NAME_MAX
    /\ args.n = IF args.op = "IndexCompressed" THEN Len(args.pairs) ELSE Len(args.items)

\* C18: the assertions len(blocks) == m (VectorComp, VectorDelta) and
\* mr == len(blocks) (IndexCompressed) hold for every n >= 0; with n = 0 each
\* of the three constructors completes without error and has zero blocks.
C18_BlockCountAsserts ==
    BlocksAttempted =>
        /\ raised = "none"
        /\ pc = "constructed"
        /\ args.n = 0 => Len(self.blocks) = 0

\* the assertions hold exactly for n >= 1: with n = 0 there is no block while
\* int((n - 1) / 16) + 1 is 1, and the constructor raises AssertionError
ZeroRowsRaise ==
    BlocksAttempted =>
        IF args.n = 0
        THEN raised = "AssertionError" /\ pc = "init_raised"
        ELSE raised = "none" /\ pc = "constructed" /\ Len(self.blocks) >= 1

====
